---- MODULE Spec2Model ----
(***************************************************************************)
(* A model of the LVIS L2 gridding tools:                                  *)
(*   est_cc_from_lvis2.py  canopy cover from the RH percentile columns     *)
(*   rasterize_vector.py   target extent of the rasterization              *)
(*   grid_lvis_l2.py       the seven-step gridding pipeline                *)
(* Each script is a specification of its own (SpecCC, SpecRVResolution and *)
(* SpecRVTemplate, SpecGrid) over its own variables; the variables of the  *)
(* other scripts stay idle. SpecCover follows the data of the pipeline     *)
(* through its steps 4 to 7.                                               *)
(* Heights are in centimetres, so that the 1.37 m threshold is an integer. *)
(***************************************************************************)
EXTENDS Integers, Sequences, FiniteSets, TLC

VARIABLES
    \* est_cc_from_lvis2.py
    in_file,      \* the lines of the input LVIS L2B ASCII file
    cc_arr,       \* the canopy cover of each data record, in file order
    out_file,     \* the lines written to the output file so far
    i,            \* index of the next data record in the write loop
    pos,          \* number of input lines the write loop has consumed
    cc_pc         \* "start", "write", "done" or "crashed"

ccVars == <<in_file, cc_arr, out_file, i, pos, cc_pc>>

VARIABLES
    \* rasterize_vector.py
    rv_in,        \* the command line and what the input files hold
    options,      \* the -tr and -te options built for gdal_rasterize
    gdal_rc,      \* return code of gdal_rasterize: "none", "ok" or "failed"
    rv_pc         \* "start", "run", "exit0" or "crashed"

rvVars == <<rv_in, options, gdal_rc, rv_pc>>

VARIABLES
    \* grid_lvis_l2.py
    grid_in,        \* the command line and what the template raster holds
    grid_pc,        \* "args", "setup", "step1".."step7", "cleanup", "done", "failed"
    started,        \* the steps that have begun, in order
    completed,      \* the steps whose subprocess.run returned normally, in order
    inter_files,    \* the registry of intermediate files: (fname, ftype) in order
    files,          \* the files on disk
    deletions,      \* the files deleted so far, each with the way used
    rasterizer_rc,  \* return code of gdal_rasterize inside step 4
    fail_cause,     \* why the run failed, "none" while it has not
    visited         \* the registry entries the clean-up loop has been through

gridVars == <<grid_in, grid_pc, started, completed, inter_files, files, deletions,
              rasterizer_rc, fail_cause, visited>>

VARIABLES
    \* grid_lvis_l2.py, steps 4 to 7: what the files hold
    cov_in,       \* the grid options of the run and the shots of the table
    raster,       \* the coverage raster: its left edge, pixel size and columns
    burned,       \* the raster columns that hold the burn value 1
    cover_cells,  \* the grid cells of the coverage vector
    segments,     \* the shot segments: shot, cell and length of the cut
    aggregates,   \* the cells of the gridded output
    cov_pc        \* "step4", "step5", "step6", "step7" or "done"

covVars == <<cov_in, raster, burned, cover_cells, segments, aggregates, cov_pc>>

vars == <<ccVars, rvVars, gridVars, covVars>>

(***************************************************************************)
(* Bounds of the model.                                                    *)
(***************************************************************************)
MaxLines == 3     \* longest shot table of sample lines
MaxWindow == 3    \* number of consecutive RH columns that vary freely
MaxCoord == 7     \* largest coordinate of a layer extent
MantissaBits == 9 \* bits of the mantissa of a float (53 in Python)
MaxShotX == 6     \* largest x coordinate of a shot

(***************************************************************************)
(* est_cc_from_lvis2.py                                                    *)
(***************************************************************************)
rh_thresh == 137

rh_pct_list == <<10, 15, 20, 25, 30, 35, 40, 45, 50, 55, 60, 65, 70, 75, 80, 85,
                 90, 95, 96, 97, 98, 99, 100>>

NPct == Len(rh_pct_list)

\* rh_pct as the 0-based array of the source.
rh_pct == [j \in 0..(NPct - 1) |-> rh_pct_list[j + 1]]

Cols == 0..(NPct - 1)

\* Heights a column can hold: below, equal to and above the threshold.
Heights == {50, rh_thresh, 140}

\* A profile that is `before` left of column off, the window w from column
\* off on, and `after` right of the window.
WindowProfile(off, w, before, after) ==
    [j \in Cols |-> IF j < off THEN before
                    ELSE IF j < off + Len(w) THEN w[j - off + 1]
                    ELSE after]

WindowProfiles ==
    {WindowProfile(off, w, b, a) :
        off \in 0..(NPct - MaxWindow), w \in [1..MaxWindow -> Heights],
        b \in Heights, a \in Heights}

\* Three sample profiles: nothing above the threshold; the example of the
\* RH columns 0.5 0.6 0.9 1.0 1.1 1.2 1.4 1.6 ...; equal to the threshold up
\* to RH95 and above it from RH96 on.
SampleProfiles ==
    {[j \in Cols |-> 50],
     [j \in Cols |-> IF j < 6 THEN 50 + 10 * j ELSE 140 + j],
     [j \in Cols |-> IF j < 18 THEN rh_thresh ELSE 140]}

HeaderLine == [kind |-> "header", rh |-> <<>>]
CommentLine == [kind |-> "comment", rh |-> <<>>]
DataLine(p) == [kind |-> "data", rh |-> p]

SampleLines == {HeaderLine, CommentLine} \cup {DataLine(p) : p \in SampleProfiles}

SeqsUpTo(S, n) == UNION {[1..k -> S] : k \in 0..n}

\* The input files of the model: every table of up to MaxLines sample lines,
\* and the two-record tables whose first record is a window profile.
InputFiles ==
    SeqsUpTo(SampleLines, MaxLines)
    \cup {<<DataLine(p), DataLine(q)>> : p \in WindowProfiles, q \in SampleProfiles}

\* np.genfromtxt(in_file, comments="#", usecols=range(9, 32)): the RH columns
\* of the data lines; a single record gives a 1-D array, no record an empty one.
DataRows(f) == SelectSeq(f, LAMBDA l : l.kind = "data")

GenFromTxt(f) ==
    LET rows == DataRows(f)
    IN [ndim |-> IF Len(rows) >= 2 THEN 2 ELSE 1,
        rows |-> [r \in 1..Len(rows) |-> rows[r].rh]]

\* in_arr > rh_thresh, for one row.
FlagRowGE(row) == [j \in Cols |-> row[j] >= rh_thresh]
FlagRow(row) == [j \in Cols |-> row[j] > rh_thresh]

\* np.cumsum(flag_arr, axis=1), for one row.
CumSum(flag) == [j \in Cols |-> Cardinality({k \in 0..j : flag[k]})]

\* np.where(flag_arr, np.cumsum(flag_arr, axis=1), len(rh_pct)+1)
TmpRow(flag) == [j \in Cols |-> IF flag[j] THEN CumSum(flag)[j] ELSE NPct + 1]

\* np.argmin: the first index that holds the minimum.
ArgMin(t) ==
    CHOOSE j \in Cols : (\A k \in Cols : t[j] <= t[k])
                        /\ (\A k \in Cols : k < j => t[k] > t[j])

\* icol[np.sum(flag_arr, axis=1)==0] = len(rh_pct) - 1
FallbackICol99 == NPct - 2
FallbackICol == NPct - 1

ICol(row) ==
    LET flag == FlagRow(row)
    IN IF Cardinality({j \in Cols : flag[j]}) = 0
       THEN FallbackICol
       ELSE ArgMin(TmpRow(flag))

\* cc_arr = 100 - rh_pct[icol], for one row.
CCOfRow(row) == 100 - rh_pct[ICol(row)]

NoField == [kind |-> "none", val |-> 0]
LabelField == [kind |-> "CC_PERCENT", val |-> 0]
\* "{1:.0f}".format(cc): the decimal digits of the integer cover.
ValueField(cc) == [kind |-> "value", val |-> cc]

CCStart ==
    /\ in_file \in InputFiles
    /\ cc_arr = <<>>
    /\ out_file = <<>>
    /\ i = 0
    /\ pos = 0
    /\ cc_pc = "start"

\* Lines 34-39: read the RH columns and compute the cover of every record.
\* np.cumsum(..., axis=1) raises on the 1-D array of fewer than two records.
EstimateCC ==
    /\ cc_pc = "start"
    /\ LET in_arr == GenFromTxt(in_file)
       IN IF in_arr.ndim < 2
          THEN /\ cc_pc' = "crashed"
               /\ cc_arr' = cc_arr
          ELSE /\ cc_pc' = "write"
               /\ cc_arr' = [r \in 1..Len(in_arr.rows) |-> CCOfRow(in_arr.rows[r])]
    /\ UNCHANGED <<in_file, out_file, i, pos>>
    /\ UNCHANGED <<rvVars, gridVars, covVars>>

\* Lines 45-53: one pass of the write loop.
WriteData(line) == [text |-> line, field |-> ValueField(cc_arr[i + 1])]

WriteLine ==
    /\ cc_pc = "write"
    /\ pos < Len(in_file)
    /\ LET line == in_file[pos + 1]
       IN IF line.kind = "data"
          THEN /\ out_file' = Append(out_file, WriteData(line))
               /\ i' = i + 1
          ELSE /\ out_file' = Append(out_file,
                     [text |-> line,
                      field |-> IF line.kind = "header" THEN LabelField ELSE NoField])
               /\ i' = i
    /\ pos' = pos + 1
    /\ UNCHANGED <<in_file, cc_arr, cc_pc>>
    /\ UNCHANGED <<rvVars, gridVars, covVars>>

\* The end of the with block: both files are closed.
CloseFiles ==
    /\ cc_pc = "write"
    /\ pos = Len(in_file)
    /\ cc_pc' = "done"
    /\ UNCHANGED <<in_file, cc_arr, out_file, i, pos>>
    /\ UNCHANGED <<rvVars, gridVars, covVars>>

CCIdle ==
    /\ in_file = <<>>
    /\ cc_arr = <<>>
    /\ out_file = <<>>
    /\ i = 0
    /\ pos = 0
    /\ cc_pc = "idle"

(***************************************************************************)
(* rasterize_vector.py                                                     *)
(* Coordinates and resolutions are integers that count half units, so      *)
(* that 0.5*img_res is an integer when img_res is a whole number of units. *)
(* Whole numbers of the size used here are exact as floats.                *)
(***************************************************************************)
\* ogr geometry types of a layer.
PointGeomTypes ==
    {"wkbPoint", "wkbPoint25D", "wkbPointM", "wkbPointZM",
     "wkbMultiPoint", "wkbMultiPoint25D", "wkbMultiPointM", "wkbMultiPointZM"}

GeomTypes == PointGeomTypes \cup {"wkbLineString", "wkbPolygon", "wkbMultiPolygon"}

\* in_layer.GetExtent(): (xmin, xmax, ymin, ymax); a single point has
\* xmin = xmax and ymin = ymax.
Extents ==
    {[xmin |-> x0, xmax |-> x1, ymin |-> y0, ymax |-> y1] :
        x0 \in 0..MaxCoord, x1 \in 0..MaxCoord, y0 \in 0..MaxCoord, y1 \in 0..MaxCoord}

LayerExtents == {e \in Extents : e.xmin <= e.xmax /\ e.ymin <= e.ymax}

\* -r values: 1, 2 and 3 units.
ImgResValues == {2, 4, 6}

\* t_ds.GetGeoTransform() as the six numbers of gdal: (c, a, b, f, d, e) with
\* x = c + a*col + b*row and y = f + d*col + e*row.
GeoTransforms ==
    {[c |-> c, a |-> a, b |-> 0, f |-> f, d |-> d, e |-> e] :
        c \in {0, 1}, f \in {0, MaxCoord},
        a \in {-2, 0, 5}, d \in {0, 1}, e \in {-3, 0, 2}}

\* osr.CoordinateTransformation(vector_srs, raster_srs): the layer is in the
\* CRS of the template, or in one whose axes are a quarter turn away from
\* the template's.
CoordTransKinds == {"same", "turn"}

TransformPoint(kind, x, y) ==
    CASE kind = "same" -> <<x, y>>
      [] kind = "turn" -> <<0 - y, x>>

\* The affine determinant a*e - b*d; ~fwd_img2geo raises when it is zero.
Determinant(gt) == gt.a * gt.e - gt.b * gt.d

\* fwd_img2geo * (col, row); whole numbers of this size are exact as floats.
FwdImg2Geo(gt, p) ==
    <<gt.a * p[1] + gt.b * p[2] + gt.c, gt.d * p[1] + gt.e * p[2] + gt.f>>

\* Python floats with a mantissa of MantissaBits bits: the float [m, e] is
\* m * 2^e with m odd (or zero), rounded to nearest, ties to even.
RECURSIVE BitLen(_)
BitLen(n) == IF n = 0 THEN 0 ELSE 1 + BitLen(n \div 2)

RECURSIVE Normal(_, _)
Normal(m, e) ==
    IF m = 0 THEN [m |-> 0, e |-> 0]
    ELSE IF m % 2 = 0 THEN Normal(m \div 2, e + 1)
    ELSE [m |-> m, e |-> e]

Abs(x) == IF x < 0 THEN 0 - x ELSE x

Sign(x) == IF x < 0 THEN 0 - 1 ELSE 1

Min(x, y) == IF x < y THEN x ELSE y

\* q plus a remainder r, rounded to a whole number: up when r is more than
\* half, to the even neighbour when r is half.
Nearest(q, r, half) ==
    IF r > half \/ (r = half /\ q % 2 = 1) THEN q + 1 ELSE q

\* The float nearest to sign * mag * 2^e, when s bits of mag are too many.
RoundBits(sign, mag, e, s) ==
    IF s <= 0 THEN Normal(sign * mag, e)
    ELSE Normal(sign * Nearest(mag \div (2 ^ s), mag % (2 ^ s), 2 ^ (s - 1)), e + s)

\* The float nearest to m * 2^e.
RoundToFloat(m, e) ==
    RoundBits(Sign(m), Abs(m), e, BitLen(Abs(m)) - MantissaBits)

FromInt(n) == RoundToFloat(n, 0)

FNeg(x) == [m |-> 0 - x.m, e |-> x.e]

FMul(x, y) == RoundToFloat(x.m * y.m, x.e + y.e)

\* x + y, both written with the exponent emin.
AddAt(x, y, emin) ==
    RoundToFloat(x.m * (2 ^ (x.e - emin)) + y.m * (2 ^ (y.e - emin)), emin)

FAdd(x, y) == AddAt(x, y, Min(x.e, y.e))

FSub(x, y) == FAdd(x, FNeg(y))

\* A quotient q with a sticky bit that says whether a remainder is left.
Sticky(q, r) == IF r = 0 THEN 2 * q ELSE 2 * q + 1

\* 2^k / mag to k bits after the point, as a float with the sign of x.
RecipBits(x, mag, k) ==
    RoundToFloat(Sign(x.m) * Sticky((2 ^ k) \div mag, (2 ^ k) % mag),
                 0 - k - 1 - x.e)

\* 1.0 / x for x # 0: the quotient to MantissaBits + 2 bits and a sticky bit.
FRecip(x) == RecipBits(x, Abs(x.m), MantissaBits + BitLen(Abs(x.m)) + 1)

\* ~fwd_img2geo of the affine package: idet = 1.0/determinant, then
\* (ra, rb, rc, rd, re, rf) = (e*idet, -b*idet, -c*ra - f*rb,
\*                             -d*idet, a*idet, -c*rd - f*re).
AffineOf(gt, ra, rb, rd, re) ==
    [a |-> ra, b |-> rb,
     c |-> FSub(FMul(FNeg(FromInt(gt.c)), ra), FMul(FromInt(gt.f), rb)),
     d |-> rd, e |-> re,
     f |-> FSub(FMul(FNeg(FromInt(gt.c)), rd), FMul(FromInt(gt.f), re))]

InvAffineBy(gt, idet) ==
    AffineOf(gt, FMul(FromInt(gt.e), idet), FMul(FNeg(FromInt(gt.b)), idet),
             FMul(FNeg(FromInt(gt.d)), idet), FMul(FromInt(gt.a), idet))

InvAffine(gt) == InvAffineBy(gt, FRecip(FromInt(Determinant(gt))))

\* inv * (vx, vy) = (vx*ra + vy*rb + rc, vx*rd + vy*re + rf), in floats.
ApplyAffine(inv, vx, vy) ==
    <<FAdd(FAdd(FMul(vx, inv.a), FMul(vy, inv.b)), inv.c),
      FAdd(FAdd(FMul(vx, inv.d), FMul(vy, inv.e)), inv.f)>>

\* inv_geo2img * (x, y)
InvGeo2Img(gt, p) == ApplyAffine(InvAffine(gt), FromInt(p[1]), FromInt(p[2]))

\* np.floor and np.ceil of the float x.
Floor(x) == IF x.e >= 0 THEN x.m * (2 ^ x.e) ELSE x.m \div (2 ^ (0 - x.e))
Ceil(x) == 0 - Floor(FNeg(x))

NoExtent == [given |-> FALSE, xmin |-> 0, ymin |-> 0, xmax |-> 0, ymax |-> 0]
TargetExtent(x0, y0, x1, y1) ==
    [given |-> TRUE, xmin |-> x0, ymin |-> y0, xmax |-> x1, ymax |-> y1]

\* Lines 95-107: the -te option in resolution mode.
HalfResNoPad(img_res) == 0
HalfRes(img_res) == img_res \div 2

ResolutionExtent(in_extent, in_geomtype, img_res) ==
    IF in_geomtype \in PointGeomTypes
    THEN TargetExtent(in_extent.xmin - HalfRes(img_res),
                      in_extent.ymin - HalfRes(img_res),
                      in_extent.xmax + HalfRes(img_res),
                      in_extent.ymax + HalfRes(img_res))
    ELSE NoExtent

\* Lines 122-123: the lower left corner is rounded down in x and up in y, the
\* upper right corner up in x and down in y.
RoundLL(p) == <<Floor(p[1]), Ceil(p[2])>>
RoundUR(p) == <<Ceil(p[1]), Floor(p[2])>>

\* Lines 120-125: a corner to pixel indices, rounded, and back.
AlignLL(gt, p) == FwdImg2Geo(gt, RoundLL(InvGeo2Img(gt, p)))
AlignUR(gt, p) == FwdImg2Geo(gt, RoundUR(InvGeo2Img(gt, p)))

ExtentOfCorners(ll_geo, ur_geo) ==
    TargetExtent(ll_geo[1], ll_geo[2], ur_geo[1], ur_geo[2])

\* Lines 118-129: the -te option in template mode.
TemplateExtent(in_extent, gt, kind) ==
    ExtentOfCorners(
        AlignLL(gt, TransformPoint(kind, in_extent.xmin, in_extent.ymin)),
        AlignUR(gt, TransformPoint(kind, in_extent.xmax, in_extent.ymax)))

NoGeoTransform == [c |-> 0, a |-> 0, b |-> 0, f |-> 0, d |-> 0, e |-> 0]

\* The command lines of the model. t_open says whether gdal.Open can read the
\* template raster.
ResolutionRuns ==
    {[mode |-> "resolution", img_res |-> r, t_open |-> FALSE,
      t_gt |-> NoGeoTransform,
      trans |-> "same", in_extent |-> x, in_geomtype |-> g] :
        r \in ImgResValues, x \in LayerExtents, g \in GeomTypes}

TemplateRuns ==
    {[mode |-> "template", img_res |-> 0, t_open |-> TRUE, t_gt |-> gt,
      trans |-> k, in_extent |-> x, in_geomtype |-> "wkbPolygon"] :
        gt \in GeoTransforms, k \in CoordTransKinds, x \in LayerExtents}
    \cup {[mode |-> "template", img_res |-> 0, t_open |-> FALSE,
           t_gt |-> NoGeoTransform, trans |-> "same", in_extent |-> x,
           in_geomtype |-> "wkbPolygon"] : x \in LayerExtents}

\* Whether the script raises before it reaches gdal_rasterize: gdal.Open gave
\* None (line 110) or the affine transform has no inverse (line 112).
RVRaises(run) ==
    /\ run.mode = "template"
    /\ \/ ~run.t_open
       \/ Determinant(run.t_gt) = 0

NoOptions == [te |-> NoExtent, tr |-> <<0, 0>>]

RVStart(runs) ==
    /\ rv_in \in runs
    /\ options = NoOptions
    /\ gdal_rc = "none"
    /\ rv_pc = "start"

\* Lines 68-130: build the options of gdal_rasterize.
BuildOptions ==
    /\ rv_pc = "start"
    /\ IF RVRaises(rv_in)
       THEN /\ rv_pc' = "crashed"
            /\ options' = options
       ELSE /\ rv_pc' = "run"
            /\ options' =
                 IF rv_in.mode = "resolution"
                 THEN [te |-> ResolutionExtent(rv_in.in_extent, rv_in.in_geomtype,
                                               rv_in.img_res),
                       tr |-> <<rv_in.img_res, rv_in.img_res>>]
                 ELSE [te |-> TemplateExtent(rv_in.in_extent, rv_in.t_gt, rv_in.trans),
                       tr |-> <<Abs(rv_in.t_gt.a), Abs(rv_in.t_gt.e)>>]
    /\ UNCHANGED <<rv_in, gdal_rc>>
    /\ UNCHANGED <<ccVars, gridVars, covVars>>

\* Lines 132-134: subprocess.run(cmd) without check: whatever gdal_rasterize
\* returns, the script goes on to its end and exits with 0.
RunGdalRasterize ==
    /\ rv_pc = "run"
    /\ \E rc \in {"ok", "failed"} : gdal_rc' = rc
    /\ rv_pc' = "exit0"
    /\ UNCHANGED <<rv_in, options>>
    /\ UNCHANGED <<ccVars, gridVars, covVars>>

RVIdle ==
    /\ rv_in = [mode |-> "idle"]
    /\ options = NoOptions
    /\ gdal_rc = "none"
    /\ rv_pc = "idle"

\* The grid gdal_rasterize builds from -tr and -te: its origin is the upper
\* left corner (xmin, ymax) of the target extent (of the layer extent when
\* no -te is given), and it has int(0.5 + width/xres) columns and
\* int(0.5 + height/yres) rows.
GridExtent(run, opts) ==
    IF opts.te.given THEN opts.te
    ELSE TargetExtent(run.in_extent.xmin, run.in_extent.ymin,
                      run.in_extent.xmax, run.in_extent.ymax)

GridColumns(run, opts) ==
    LET te == GridExtent(run, opts)
    IN (2 * (te.xmax - te.xmin) + opts.tr[1]) \div (2 * opts.tr[1])

GridRows(run, opts) ==
    LET te == GridExtent(run, opts)
    IN (2 * (te.ymax - te.ymin) + opts.tr[2]) \div (2 * opts.tr[2])

\* x is the centre of a pixel column, y the centre of a pixel row.
IsColumnCentre(run, opts, x) ==
    \E k \in 0..(GridColumns(run, opts) - 1) :
        x = GridExtent(run, opts).xmin + (opts.tr[1] \div 2) + k * opts.tr[1]

IsRowCentre(run, opts, y) ==
    \E k \in 0..(GridRows(run, opts) - 1) :
        y = GridExtent(run, opts).ymax - (opts.tr[2] \div 2) - k * opts.tr[2]

(***************************************************************************)
(* grid_lvis_l2.py                                                         *)
(* A file is a record [stem, ext]: os.path.splitext(path) of the source,   *)
(* the stem being a directory and a name.                                  *)
(* Every external tool either returns 0 and leaves its output file, or     *)
(* returns non-zero and leaves nothing.                                    *)
(***************************************************************************)
Path(stem, ext) == [stem |-> stem, ext |-> ext]

\* The directories and the names of the gridded output on the command
\* lines of the model: a name of its own, and the name LVIS_shot_cover.db.
Dirs == {"out", "work"}
OutputNames == {<<"grid", "sqlite">>, <<"LVIS_shot_cover", "db">>}

\* The positional arguments: the input is LVIS.txt in some directory.
lvis_l2txt == Path(<<grid_in.in_dir, "LVIS">>, "txt")
lvis_l2grd == Path(<<grid_in.out_dir, grid_in.out_name[1]>>, grid_in.out_name[2])

\* Lines 99-100: without --dir_intermediate the directory of the output.
dir_inter == IF grid_in.dir_inter = "none" THEN grid_in.out_dir ELSE grid_in.dir_inter

\* The files named after lvis_name, in dir_inter.
lvis_l2_point == Path(<<dir_inter, "LVIS_points">>, "sqlite")
lvis_l2_point_prj == Path(<<dir_inter, "LVIS_points_proj">>, "sqlite")
tmp_vector == Path(<<dir_inter, "tmpdir/tmp">>, "sqlite")
lvis_l2_shot_circle == Path(<<dir_inter, "LVIS_shot_circles">>, "sqlite")
lvis_l2_shot_cover_tif == Path(<<dir_inter, "LVIS_shot_cover">>, "tif")
lvis_l2_shot_cover_vector == Path(<<dir_inter, "LVIS_shot_cover">>, "sqlite")
lvis_l2_shot_seg == Path(<<dir_inter, "LVIS_shot_segments">>, "sqlite")

Stages ==
    <<"Vectorize", "ReprojectAugment", "BufferToCircles", "RasterizeCoverage",
      "PolygonizeCoverage", "IntersectSegments", "AggregateToPoints">>

\* --shot_diameter has no type: a value given on the command line stays a
\* string, the default is the integer 20.
ShotDiameters ==
    {[given |-> FALSE, val |-> 20]}
    \cup {[given |-> TRUE, val |-> v] : v \in {-20, 0, 20}}

\* The template rasters of the pipeline: a north-up grid and one whose pixel
\* width is zero.
NorthUp == [c |-> 0, a |-> 3, b |-> 0, f |-> 0, d |-> 0, e |-> -3]
ZeroWidth == [c |-> 0, a |-> 0, b |-> 0, f |-> 0, d |-> 0, e |-> -3]

GridRuns ==
    {[mode |-> m, out_srs |-> s, t_open |-> o, t_gt |-> gt, shot_diameter |-> sd,
      col_types |-> ct, keep_inter |-> k,
      in_dir |-> id, out_dir |-> od, out_name |-> on, dir_inter |-> di] :
        m \in {"resolution", "template"}, s \in BOOLEAN, o \in BOOLEAN,
        gt \in {NorthUp, ZeroWidth}, sd \in ShotDiameters,
        ct \in {"none", "file", "missing"}, k \in BOOLEAN,
        id \in Dirs, od \in Dirs, on \in OutputNames, di \in {"none", "work"}}

\* In resolution mode there is no template raster.
GridCmdLines ==
    {r \in GridRuns : r.mode = "resolution" => (~r.t_open /\ r.t_gt = NorthUp)}

GridStart ==
    /\ grid_in \in GridCmdLines
    /\ grid_pc = "args"
    /\ started = <<>>
    /\ completed = <<>>
    /\ inter_files = <<>>
    /\ files = {lvis_l2txt}
    /\ deletions = {}
    /\ rasterizer_rc = "none"
    /\ fail_cause = "none"
    /\ visited = {}

GridFail(cause) ==
    /\ grid_pc' = "failed"
    /\ fail_cause' = cause

\* getCmdArgs, lines 55-58.
GetCmdArgs ==
    /\ grid_pc = "args"
    /\ IF grid_in.mode = "resolution" /\ ~grid_in.out_srs
       THEN GridFail("ArgumentError")
       ELSE /\ grid_pc' = "setup"
            /\ fail_cause' = fail_cause
    /\ UNCHANGED <<grid_in, started, completed, inter_files, files, deletions,
                   rasterizer_rc, visited>>
    /\ UNCHANGED <<ccVars, rvVars, covVars>>

\* main, lines 71-102: the column types file and the template raster.
Setup ==
    /\ grid_pc = "setup"
    /\ IF grid_in.col_types = "missing"
       THEN GridFail("MissingColumnTypes")
       ELSE IF grid_in.mode = "template" /\ ~grid_in.t_open
       THEN GridFail("TemplateUnreadable")
       ELSE /\ grid_pc' = "step1"
            /\ fail_cause' = fail_cause
    /\ UNCHANGED <<grid_in, started, completed, inter_files, files, deletions,
                   rasterizer_rc, visited>>
    /\ UNCHANGED <<ccVars, rvVars, covVars>>

\* subprocess.run(cmd, check=True) of one step: the tool returns non-zero and
\* the run ends, or it returns 0, its output exists, the output is registered
\* under its type and the next step is up.
RunStep(k, out, type, next) ==
    /\ started' = Append(started, Stages[k])
    /\ \/ /\ GridFail("ToolFailure")
          /\ UNCHANGED <<completed, inter_files, files>>
       \/ /\ files' = files \cup {out}
          /\ completed' = Append(completed, Stages[k])
          /\ inter_files' = IF type = "output" THEN inter_files
                            ELSE Append(inter_files, [fname |-> out, ftype |-> type])
          /\ grid_pc' = next
          /\ fail_cause' = fail_cause

\* Lines 103-114.
Step1 ==
    /\ grid_pc = "step1"
    /\ RunStep(1, lvis_l2_point, "vector", "step2")
    /\ UNCHANGED <<grid_in, deletions, rasterizer_rc, visited>>
    /\ UNCHANGED <<ccVars, rvVars, covVars>>

\* Lines 116-139: two ogr2ogr calls through a temporary file that is removed
\* once both have returned 0.
Step2 ==
    /\ grid_pc = "step2"
    /\ started' = Append(started, Stages[2])
    /\ \/ /\ GridFail("ToolFailure")
          /\ UNCHANGED <<completed, inter_files, files>>
       \/ /\ GridFail("ToolFailure")
          /\ files' = files \cup {tmp_vector}
          /\ UNCHANGED <<completed, inter_files>>
       \/ /\ files' = files \cup {lvis_l2_point_prj}
          /\ completed' = Append(completed, Stages[2])
          /\ inter_files' = Append(inter_files,
                                   [fname |-> lvis_l2_point_prj, ftype |-> "vector"])
          /\ grid_pc' = "step3"
          /\ fail_cause' = fail_cause
    /\ UNCHANGED <<grid_in, deletions, rasterizer_rc, visited>>
    /\ UNCHANGED <<ccVars, rvVars, covVars>>

\* shot_diameter*0.5 at line 146: a string times a float raises TypeError.
HalfDiameterOfFloat(sd) == [raises |-> FALSE, val |-> sd.val]
HalfDiameter(sd) ==
    IF sd.given THEN [raises |-> TRUE, val |-> 0]
    ELSE [raises |-> FALSE, val |-> sd.val]

\* Lines 141-159.
Step3 ==
    /\ grid_pc = "step3"
    /\ IF HalfDiameter(grid_in.shot_diameter).raises
       THEN /\ started' = Append(started, Stages[3])
            /\ GridFail("TypeError")
            /\ UNCHANGED <<completed, inter_files, files>>
       ELSE RunStep(3, lvis_l2_shot_circle, "vector", "step4")
    /\ UNCHANGED <<grid_in, deletions, rasterizer_rc, visited>>
    /\ UNCHANGED <<ccVars, rvVars, covVars>>

\* The rasterize_vector.py command line of step 4.
RasterizeRun(run) ==
    [mode |-> run.mode, t_open |-> run.t_open, t_gt |-> run.t_gt]

\* Lines 161-176: python rasterize_vector.py with check=True. The script
\* returns non-zero when it raises, and 0 otherwise, whatever gdal_rasterize
\* returned to it (rasterize_vector.py line 134).
Step4 ==
    /\ grid_pc = "step4"
    /\ started' = Append(started, Stages[4])
    /\ IF RVRaises(RasterizeRun(grid_in))
       THEN /\ GridFail("NonInvertible")
            /\ UNCHANGED <<completed, inter_files, files, rasterizer_rc>>
       ELSE /\ \/ /\ rasterizer_rc' = "ok"
                  /\ files' = files \cup {lvis_l2_shot_cover_tif}
               \/ /\ rasterizer_rc' = "failed"
                  /\ files' = files
            /\ completed' = Append(completed, Stages[4])
            /\ inter_files' = Append(inter_files,
                                     [fname |-> lvis_l2_shot_cover_tif, ftype |-> "raster"])
            /\ grid_pc' = "step5"
            /\ fail_cause' = fail_cause
    /\ UNCHANGED <<grid_in, deletions, visited>>
    /\ UNCHANGED <<ccVars, rvVars, covVars>>

\* Lines 178-186.
Step5 ==
    /\ grid_pc = "step5"
    /\ RunStep(5, lvis_l2_shot_cover_vector, "vector", "step6")
    /\ UNCHANGED <<grid_in, deletions, rasterizer_rc, visited>>
    /\ UNCHANGED <<ccVars, rvVars, covVars>>

\* Lines 188-197.
Step6 ==
    /\ grid_pc = "step6"
    /\ RunStep(6, lvis_l2_shot_seg, "vector", "step7")
    /\ UNCHANGED <<grid_in, deletions, rasterizer_rc, visited>>
    /\ UNCHANGED <<ccVars, rvVars, covVars>>

\* Lines 199-210: the last step writes the gridded output, which is not
\* registered; then the run is over or the clean-up starts.
Step7 ==
    /\ grid_pc = "step7"
    /\ RunStep(7, lvis_l2grd, "output",
               IF grid_in.keep_inter THEN "done" ELSE "cleanup")
    /\ UNCHANGED <<grid_in, deletions, rasterizer_rc, visited>>
    /\ UNCHANGED <<ccVars, rvVars, covVars>>

\* glob.glob(os.path.splitext(fname)[0]+'.*'): the files with the stem of fname.
Glob(fname) == {g \in files : g.stem = fname.stem}

\* inter_files.items(): the entries in the order they were registered.
NextEntries ==
    LET left == {n \in 1..Len(inter_files) : n \notin visited}
    IN {n \in left : \A m \in left : n <= m}

\* Lines 212-220: one pass of the clean-up loop.
CleanupEntry ==
    /\ grid_pc = "cleanup"
    /\ \E n \in NextEntries :
         LET entry == inter_files[n]
         IN /\ visited' = visited \cup {n}
            /\ IF entry.ftype = "vector"
               THEN /\ files' = files \ Glob(entry.fname)
                    /\ deletions' = deletions
                         \cup {[fname |-> g, via |-> "vector"] : g \in Glob(entry.fname)}
                    /\ UNCHANGED <<grid_pc, fail_cause>>
               ELSE \/ /\ files' = files \ {entry.fname}
                       /\ deletions' = deletions
                            \cup {[fname |-> entry.fname, via |-> "raster"]}
                       /\ UNCHANGED <<grid_pc, fail_cause>>
                    \/ /\ GridFail("DeleteFailure")
                       /\ UNCHANGED <<files, deletions>>
    /\ UNCHANGED <<grid_in, started, completed, inter_files, rasterizer_rc>>
    /\ UNCHANGED <<ccVars, rvVars, covVars>>

\* The end of the clean-up loop.
CleanupDone ==
    /\ grid_pc = "cleanup"
    /\ NextEntries = {}
    /\ grid_pc' = "done"
    /\ UNCHANGED <<grid_in, started, completed, inter_files, files, deletions,
                   rasterizer_rc, fail_cause, visited>>
    /\ UNCHANGED <<ccVars, rvVars, covVars>>

GridIdle ==
    /\ grid_in = [mode |-> "idle"]
    /\ grid_pc = "idle"
    /\ started = <<>>
    /\ completed = <<>>
    /\ inter_files = <<>>
    /\ files = {}
    /\ deletions = {}
    /\ rasterizer_rc = "none"
    /\ fail_cause = "none"
    /\ visited = {}

(***************************************************************************)
(* grid_lvis_l2.py, steps 4 to 7, followed along the x axis. The shots lie *)
(* on one east-west line (y = 0) and the pixel size is at least the shot   *)
(* diameter and less than twice of it, so that the coverage raster has one *)
(* row, which holds every shot circle from top to bottom: a cell is a      *)
(* column. Cell k of the grid with left edge xmin and pixel size res spans *)
(* xmin + k*res .. xmin + (k+1)*res. One unit is 5 m.                      *)
(* Steps 5 to 7 run shell scripts (raster_to_polygon_grids.sh,             *)
(* grids_cut_shots.sh, shot_seg_to_point_grids.sh); they are modelled by   *)
(* what their callers say of them.                                         *)
(***************************************************************************)
\* shot_diameter*0.5 with the default diameter of 20 m.
ShotRadius == 2

\* -r values of 20 m, 25 m and 30 m.
CoverResValues == {4, 5, 6}

\* The x coordinates of the shots of the table.
ShotSets == (SUBSET (0..MaxShotX)) \ {{}}

CoverRuns ==
    {[mode |-> m, img_res |-> r, origin |-> o, shots |-> S] :
        m \in {"resolution", "template"}, r \in CoverResValues,
        o \in {0, 1}, S \in ShotSets}

\* In resolution mode there is no template raster.
CoverCmdLines == {r \in CoverRuns : r.mode = "resolution" => r.origin = 0}

MinOf(S) == CHOOSE x \in S : \A y \in S : x <= y
MaxOf(S) == CHOOSE x \in S : \A y \in S : x >= y

\* in_layer.GetExtent() of the shot circles of step 3.
CircleExtent(shots) ==
    [xmin |-> MinOf(shots) - ShotRadius, xmax |-> MaxOf(shots) + ShotRadius,
     ymin |-> 0 - ShotRadius, ymax |-> ShotRadius]

\* The template raster of a run: north up, square pixels of the size of the
\* run, its top on the top of the shot circles.
CoverTemplate(run) ==
    [c |-> run.origin, a |-> run.img_res, b |-> 0,
     f |-> ShotRadius, d |-> 0, e |-> 0 - run.img_res]

\* The rasterize_vector.py command line of step 4: -t or -r, and the layer
\* of shot circles, which are polygons.
RasterizeCmd(run) ==
    [mode |-> run.mode, img_res |-> run.img_res,
     t_open |-> run.mode = "template",
     t_gt |-> IF run.mode = "template" THEN CoverTemplate(run) ELSE NoGeoTransform,
     trans |-> "same", in_extent |-> CircleExtent(run.shots),
     in_geomtype |-> "wkbPolygon"]

\* The -te and -tr options rasterize_vector.py builds for the command line rv.
RasterizeOptions(rv) ==
    IF rv.mode = "resolution"
    THEN [te |-> ResolutionExtent(rv.in_extent, rv.in_geomtype, rv.img_res),
          tr |-> <<rv.img_res, rv.img_res>>]
    ELSE [te |-> TemplateExtent(rv.in_extent, rv.t_gt, rv.trans),
          tr |-> <<Abs(rv.t_gt.a), Abs(rv.t_gt.e)>>]

\* The raster gdal_rasterize creates from these options.
RasterOf(rv, opts) ==
    [xmin |-> GridExtent(rv, opts).xmin, res |-> opts.tr[1],
     cols |-> GridColumns(rv, opts), rows |-> GridRows(rv, opts)]

CoverRaster(run) == RasterOf(RasterizeCmd(run), RasterizeOptions(RasterizeCmd(run)))

NoRaster == [xmin |-> 0, res |-> 0, cols |-> 0, rows |-> 0]

Max(x, y) == IF x > y THEN x ELSE y

CellLeft(rs, k) == rs.xmin + k * rs.res
CellRight(rs, k) == rs.xmin + (k + 1) * rs.res

\* The length of the part of the shot circle at x that lies in cell k:
\* zero when the circle only touches the cell, negative when they are apart.
CutLength(rs, x, k) ==
    Min(x + ShotRadius, CellRight(rs, k)) - Max(x - ShotRadius, CellLeft(rs, k))

\* The columns of the raster a shot circle reaches into, and those a shot
\* circle reaches or touches.
OverlappedColumns(rs, shots) ==
    {k \in 0..(rs.cols - 1) : \E x \in shots : CutLength(rs, x, k) > 0}

TouchedColumns(rs, shots) ==
    {k \in 0..(rs.cols - 1) : \E x \in shots : CutLength(rs, x, k) >= 0}

\* --at --burn 1 --init 0: every pixel a circle reaches into is burned; a
\* pixel a circle only touches on its edge is burned or not, as the line
\* rendering of gdal_rasterize decides.
BurnChoices(rs, shots) ==
    {B \in SUBSET TouchedColumns(rs, shots) : OverlappedColumns(rs, shots) \subseteq B}

CoverStart ==
    /\ cov_in \in CoverCmdLines
    /\ raster = NoRaster
    /\ burned = {}
    /\ cover_cells = {}
    /\ segments = {}
    /\ aggregates = {}
    /\ cov_pc = "step4"

\* Step 4: rasterize the shot circles.
RasterizeCoverage ==
    /\ cov_pc = "step4"
    /\ raster' = CoverRaster(cov_in)
    /\ burned' \in BurnChoices(CoverRaster(cov_in), cov_in.shots)
    /\ cov_pc' = "step5"
    /\ UNCHANGED <<cov_in, cover_cells, segments, aggregates>>
    /\ UNCHANGED <<ccVars, rvVars, gridVars>>

\* Step 5: one polygon for every pixel of the coverage raster that is not
\* nodata (0).
PolygonizeCoverage ==
    /\ cov_pc = "step5"
    /\ cover_cells' = burned
    /\ cov_pc' = "step6"
    /\ UNCHANGED <<cov_in, raster, burned, segments, aggregates>>
    /\ UNCHANGED <<ccVars, rvVars, gridVars>>

\* The cuts of the shot circles by the cells.
SegmentsOf(rs, shots, cells) ==
    {[shot |-> x, cell |-> k, len |-> CutLength(rs, x, k)] : x \in shots, k \in cells}

\* Step 6: cut the shot circles into segments with the grid cells: one
\* segment for every circle and cell that share more than an edge.
IntersectSegments ==
    /\ cov_pc = "step6"
    /\ segments' = {s \in SegmentsOf(raster, cov_in.shots, cover_cells) : s.len > 0}
    /\ cov_pc' = "step7"
    /\ UNCHANGED <<cov_in, raster, burned, cover_cells, aggregates>>
    /\ UNCHANGED <<ccVars, rvVars, gridVars>>

\* Step 7: group the segments by cell, one point for every group.
AggregateToPoints ==
    /\ cov_pc = "step7"
    /\ aggregates' = {s.cell : s \in segments}
    /\ cov_pc' = "done"
    /\ UNCHANGED <<cov_in, raster, burned, cover_cells, segments>>
    /\ UNCHANGED <<ccVars, rvVars, gridVars>>

CoverIdle ==
    /\ cov_in = [mode |-> "idle"]
    /\ raster = NoRaster
    /\ burned = {}
    /\ cover_cells = {}
    /\ segments = {}
    /\ aggregates = {}
    /\ cov_pc = "idle"

(***************************************************************************)
(* The specifications, one for each script.                                *)
(***************************************************************************)
CCInit == CCStart /\ RVIdle /\ GridIdle /\ CoverIdle

CCNext == EstimateCC \/ WriteLine \/ CloseFiles

SpecCC == CCInit /\ [][CCNext]_vars

RVNext == BuildOptions \/ RunGdalRasterize

\* rasterize_vector.py -r IMG_RES
RVResolutionInit == RVStart(ResolutionRuns) /\ CCIdle /\ GridIdle /\ CoverIdle

SpecRVResolution == RVResolutionInit /\ [][RVNext]_vars

\* rasterize_vector.py -t TEMPLATE_RASTER
RVTemplateInit == RVStart(TemplateRuns) /\ CCIdle /\ GridIdle /\ CoverIdle

SpecRVTemplate == RVTemplateInit /\ [][RVNext]_vars

GridInit == GridStart /\ CCIdle /\ RVIdle /\ CoverIdle

GridNext ==
    \/ GetCmdArgs
    \/ Setup
    \/ Step1
    \/ Step2
    \/ Step3
    \/ Step4
    \/ Step5
    \/ Step6
    \/ Step7
    \/ CleanupEntry
    \/ CleanupDone

SpecGrid == GridInit /\ [][GridNext]_vars

CoverInit == CoverStart /\ CCIdle /\ RVIdle /\ GridIdle

CoverNext ==
    \/ RasterizeCoverage
    \/ PolygonizeCoverage
    \/ IntersectSegments
    \/ AggregateToPoints

SpecCover == CoverInit /\ [][CoverNext]_vars

(***************************************************************************)
(* Claims about est_cc_from_lvis2.py, checked under SpecCC.                *)
(***************************************************************************)
CCComputed == cc_pc \in {"write", "done"}

\* The RH columns of data record r (1-based, in file order).
RowOf(r) == DataRows(in_file)[r].rh

NoneAbove(row) == \A j \in Cols : row[j] <= rh_thresh
SomeAbove(row) == \E j \in Cols : row[j] > rh_thresh

\* The smallest index whose height strictly exceeds the threshold.
IStar(row) ==
    CHOOSE j \in Cols : row[j] > rh_thresh /\ \A k \in 0..(j - 1) : row[k] <= rh_thresh

\* C1 as stated: a record with no height strictly above the threshold gets
\* the cover 100 - rh_pct[N-2], the RH99 entry, that is cover 1.
C1_FallbackIsRH99 ==
    CCComputed =>
        \A r \in 1..Len(cc_arr) :
            NoneAbove(RowOf(r)) =>
                /\ cc_arr[r] = 100 - rh_pct[NPct - 2]
                /\ cc_arr[r] = 1

\* C1 as amended: a record with no height strictly above the threshold gets
\* the cover 100 - rh_pct[N-1], the last entry RH100, that is cover 0.
C1_FallbackIsRH100 ==
    CCComputed =>
        \A r \in 1..Len(cc_arr) :
            NoneAbove(RowOf(r)) =>
                /\ cc_arr[r] = 100 - rh_pct[NPct - 1]
                /\ cc_arr[r] = 0

\* A finished run with a record that never exceeds the threshold and touches it.
C1_Witness ==
    /\ cc_pc = "done"
    /\ \E r \in 1..Len(cc_arr) :
          /\ NoneAbove(RowOf(r))
          /\ \E j \in Cols : RowOf(r)[j] = rh_thresh
          /\ cc_arr[r] = 0

\* C2: a record with a height strictly above the threshold gets the cover
\* 100 - rh_pct[i*], i* the smallest index whose height strictly exceeds the
\* threshold, and the cover lies in 0..100.
C2_FirstCrossing ==
    CCComputed =>
        \A r \in 1..Len(cc_arr) :
            SomeAbove(RowOf(r)) =>
                /\ cc_arr[r] = 100 - rh_pct[IStar(RowOf(r))]
                /\ cc_arr[r] \in 0..100

\* A computed record that equals the threshold before its first crossing and
\* falls below the threshold again after it.
C2_Witness ==
    /\ CCComputed
    /\ \E r \in 1..Len(cc_arr) :
          LET row == RowOf(r)
          IN /\ SomeAbove(row)
             /\ \E j \in Cols : j < IStar(row) /\ row[j] = rh_thresh
             /\ \E j \in Cols : j > IStar(row) /\ row[j] < rh_thresh
             /\ IStar(row) > 17
             /\ cc_arr[r] = 100 - rh_pct[IStar(row)]

\* The output line the claim expects for an input line.
ExpectedLine(line) ==
    [text |-> line,
     field |-> CASE line.kind = "data" -> ValueField(CCOfRow(line.rh))
                 [] line.kind = "header" -> LabelField
                 [] OTHER -> NoField]

\* C7: when the step ends, the output holds one line per input line in the
\* same order: a data record with its own cover appended, the expected
\* header with CC_PERCENT appended, any other comment line unmodified.
C7_OneOutputLinePerInputLine ==
    cc_pc \in {"done", "crashed"} =>
        /\ Len(out_file) = Len(in_file)
        /\ \A k \in 1..Len(in_file) : out_file[k] = ExpectedLine(in_file[k])

(***************************************************************************)
(* Claims about rasterize_vector.py: C3 and C9 are checked under           *)
(* SpecRVTemplate, C8 under SpecRVResolution.                              *)
(***************************************************************************)
RVBuilt == rv_pc \in {"run", "exit0"}

\* The four corners of the layer extent in the CRS of the template.
SourceCorners(run) ==
    {TransformPoint(run.trans, x, y) :
        x \in {run.in_extent.xmin, run.in_extent.xmax},
        y \in {run.in_extent.ymin, run.in_extent.ymax}}

\* (x, y) lies on a whole pixel index of the grid gt, in exact arithmetic:
\* the numerators of the inverse transform are multiples of the determinant.
WholePixel(gt, x, y) ==
    /\ (gt.e * (x - gt.c) - gt.b * (y - gt.f)) % Abs(Determinant(gt)) = 0
    /\ (gt.a * (y - gt.f) - gt.d * (x - gt.c)) % Abs(Determinant(gt)) = 0

\* C3: in template mode the target extent contains all four corners of the
\* reprojected layer extent, and its corners lie on whole pixel indices of
\* the template, whatever the signs of the pixel width and height.
C3_TargetExtentContainsSource ==
    (RVBuilt /\ rv_in.mode = "template") =>
        LET te == options.te
        IN /\ \A p \in SourceCorners(rv_in) :
                /\ te.xmin <= p[1] /\ p[1] <= te.xmax
                /\ te.ymin <= p[2] /\ p[2] <= te.ymax
           /\ WholePixel(rv_in.t_gt, te.xmin, te.ymin)
           /\ WholePixel(rv_in.t_gt, te.xmax, te.ymax)

\* C8 as stated: in resolution mode a point layer gets its extent padded by
\* half a pixel on every side, and the smallest and the largest x and y of
\* the data are then centres of pixels of the grid; any other layer gets no
\* target extent.
C8_PointExtremesAtPixelCentres ==
    (RVBuilt /\ rv_in.mode = "resolution") =>
        LET te == options.te
            ext == rv_in.in_extent
        IN IF rv_in.in_geomtype \in PointGeomTypes
           THEN /\ te.given
                /\ 2 * te.xmin = 2 * ext.xmin - rv_in.img_res
                /\ 2 * te.ymin = 2 * ext.ymin - rv_in.img_res
                /\ 2 * te.xmax = 2 * ext.xmax + rv_in.img_res
                /\ 2 * te.ymax = 2 * ext.ymax + rv_in.img_res
                /\ IsColumnCentre(rv_in, options, ext.xmin)
                /\ IsColumnCentre(rv_in, options, ext.xmax)
                /\ IsRowCentre(rv_in, options, ext.ymin)
                /\ IsRowCentre(rv_in, options, ext.ymax)
           ELSE ~te.given

\* C8 as amended: the padding is as stated; the smallest x and the largest y
\* of the data are centres of the first pixel column and row; the largest x
\* (the smallest y) is a pixel centre exactly when the width (the height) of
\* the layer extent is a whole multiple of the resolution.
C8_PaddedExtentAnchorsCentres ==
    (RVBuilt /\ rv_in.mode = "resolution") =>
        LET te == options.te
            ext == rv_in.in_extent
        IN IF rv_in.in_geomtype \in PointGeomTypes
           THEN /\ te.given
                /\ 2 * te.xmin = 2 * ext.xmin - rv_in.img_res
                /\ 2 * te.ymin = 2 * ext.ymin - rv_in.img_res
                /\ 2 * te.xmax = 2 * ext.xmax + rv_in.img_res
                /\ 2 * te.ymax = 2 * ext.ymax + rv_in.img_res
                /\ IsColumnCentre(rv_in, options, ext.xmin)
                /\ IsRowCentre(rv_in, options, ext.ymax)
                /\ IsColumnCentre(rv_in, options, ext.xmax)
                     <=> ((ext.xmax - ext.xmin) % rv_in.img_res = 0)
                /\ IsRowCentre(rv_in, options, ext.ymin)
                     <=> ((ext.ymax - ext.ymin) % rv_in.img_res = 0)
           ELSE ~te.given

\* A point layer whose width is no multiple of the resolution and whose
\* height is a non-zero one, after the options are built.
C8_Witness ==
    /\ rv_pc = "exit0"
    /\ rv_in.mode = "resolution"
    /\ rv_in.in_geomtype = "wkbMultiPoint"
    /\ (rv_in.in_extent.xmax - rv_in.in_extent.xmin) % rv_in.img_res # 0
    /\ rv_in.in_extent.ymax - rv_in.in_extent.ymin = rv_in.img_res
    /\ options.te.given
    /\ IsRowCentre(rv_in, options, rv_in.in_extent.ymin)
    /\ ~IsColumnCentre(rv_in, options, rv_in.in_extent.xmax)

\* The template is not rotated and all four sides of the layer extent lie on
\* whole pixel indices of it.
PixelAligned(run) ==
    /\ run.t_gt.b = 0 /\ run.t_gt.d = 0
    /\ WholePixel(run.t_gt, run.in_extent.xmin, run.in_extent.ymin)
    /\ WholePixel(run.t_gt, run.in_extent.xmax, run.in_extent.ymax)

\* The layer extent is exactly pixel (col, row) of an unrotated template.
IsPixelBounds(run, col, row) ==
    LET gt == run.t_gt
        xs == {gt.c + gt.a * col, gt.c + gt.a * (col + 1)}
        ys == {gt.f + gt.e * row, gt.f + gt.e * (row + 1)}
    IN /\ gt.b = 0 /\ gt.d = 0
       /\ \A x \in xs : run.in_extent.xmin <= x /\ x <= run.in_extent.xmax
       /\ \A y \in ys : run.in_extent.ymin <= y /\ y <= run.in_extent.ymax
       /\ run.in_extent.xmin \in xs /\ run.in_extent.xmax \in xs
       /\ run.in_extent.ymin \in ys /\ run.in_extent.ymax \in ys

PixelRange == (0 - MaxCoord - 1)..(MaxCoord + 1)

\* C9: in template mode, a layer in the CRS of the template whose extent is
\* one pixel of the template, or is aligned with its pixels already, gets
\* that extent back as the target extent.
C9_AlignedExtentUnchanged ==
    (RVBuilt /\ rv_in.mode = "template" /\ rv_in.trans = "same") =>
        LET ext == rv_in.in_extent
            same == options.te = TargetExtent(ext.xmin, ext.ymin, ext.xmax, ext.ymax)
        IN /\ (\E col \in PixelRange, row \in PixelRange :
                  IsPixelBounds(rv_in, col, row)) => same
           /\ PixelAligned(rv_in) => same

(***************************************************************************)
(* Claims about grid_lvis_l2.py, checked under SpecGrid.                   *)
(***************************************************************************)
Range(s) == {s[n] : n \in 1..Len(s)}

\* Step k has succeeded: subprocess.run returned normally and, for the
\* rasterization, gdal_rasterize returned 0 inside it.
StageSucceeded(k) ==
    /\ Stages[k] \in Range(completed)
    /\ (Stages[k] = "RasterizeCoverage") => rasterizer_rc = "ok"

\* C4: the steps start in the fixed order, each at most once, and a step
\* starts only when the one before it has succeeded, the rasterizer inside
\* step 4 included: after a failure no later step starts.
C4_StagesInOrderAfterSuccess ==
    /\ Len(started) <= Len(Stages)
    /\ \A n \in 1..Len(started) : started[n] = Stages[n]
    /\ \A n \in 2..Len(started) : StageSucceeded(n - 1)

RunEnded == grid_pc \in {"done", "failed"}

FinalStageSucceeded == "AggregateToPoints" \in Range(completed)

\* C5: files are deleted exactly when the last step has succeeded and
\* --keep_intermediate is not set: then every one of the six registered files
\* is deleted, each the way its type asks for; with --keep_intermediate, or
\* after a failed step, nothing is deleted.
C5_CleanupExactlyOnSuccess ==
    /\ deletions # {} => (FinalStageSucceeded /\ ~grid_in.keep_inter)
    /\ \A del \in deletions :
         \E n \in 1..Len(inter_files) :
            inter_files[n] = [fname |-> del.fname, ftype |-> del.via]
    /\ (RunEnded /\ FinalStageSucceeded /\ ~grid_in.keep_inter) =>
         /\ Len(inter_files) = 6
         /\ \A n \in 1..Len(inter_files) :
              /\ [fname |-> inter_files[n].fname, via |-> inter_files[n].ftype]
                   \in deletions
              /\ inter_files[n].fname \notin files

\* C6: a run that ends in an argument or geometry error (resolution without
\* --out_srs, unreadable template, template without inverse) has started no
\* step and written no file.
C6_ErrorsBeforeAnyStage ==
    (grid_pc = "failed"
        /\ fail_cause \in {"ArgumentError", "TemplateUnreadable", "NonInvertible"}) =>
        /\ started = <<>>
        /\ files = {lvis_l2txt}

NonPositiveDiameter ==
    /\ grid_in.shot_diameter.given
    /\ grid_in.shot_diameter.val <= 0

\* C10: a run with --shot_diameter <= 0 writes no gridded output and can only
\* end as a failed run: it never gets past step 3.
C10_NonPositiveDiameterFails ==
    NonPositiveDiameter =>
        /\ grid_pc \in {"args", "setup", "step1", "step2", "step3", "failed"}
        /\ lvis_l2grd \notin files
        /\ "AggregateToPoints" \notin Range(started)
        /\ grid_pc = "failed" \/ ENABLED GridNext

\* A run with --shot_diameter -20 that failed in step 3, steps 1 and 2 done.
C10_Witness ==
    /\ grid_in.shot_diameter = [given |-> TRUE, val |-> -20]
    /\ grid_pc = "failed"
    /\ fail_cause = "TypeError"
    /\ completed = <<"Vectorize", "ReprojectAugment">>
    /\ started = <<"Vectorize", "ReprojectAugment", "BufferToCircles">>

(***************************************************************************)
(* Claims about steps 4 to 7 of grid_lvis_l2.py, checked under SpecCover.  *)
(***************************************************************************)
\* The cells of the grid, inside the coverage raster and around it.
CellRange == (0 - MaxShotX)..(MaxShotX + 2 * ShotRadius)

\* The cells of the grid that hold a part of a shot circle.
CellsWithSegment ==
    {k \in CellRange : \E x \in cov_in.shots : CutLength(raster, x, k) > 0}

\* C11: after steps 4 to 7 the gridded output has a point for exactly the
\* cells of the grid that hold a part of a shot circle, as many points as
\* there are covered cells, and none for a cell no circle reaches into.
C11_AggregatesAreCellsWithSegment ==
    cov_pc = "done" =>
        /\ aggregates = CellsWithSegment
        /\ Cardinality(aggregates) = Cardinality(cover_cells)
        /\ \A k \in aggregates : \E x \in cov_in.shots : CutLength(raster, x, k) > 0

(***************************************************************************)
(* A claim about the clean-up of grid_lvis_l2.py, checked under SpecGrid.  *)
(***************************************************************************)
\* The files of the registry.
Registered == {inter_files[n].fname : n \in 1..Len(inter_files)}

\* C12: after a run that ends well without --keep_intermediate, the gridded
\* output and the input table exist, and every file deleted is one of the
\* six files of the registry.
C12_CleanupRemovesOnlyRegistered ==
    (grid_pc = "done" /\ ~grid_in.keep_inter) =>
        /\ Cardinality(Registered) = 6
        /\ lvis_l2grd \in files
        /\ lvis_l2txt \in files
        /\ \A del \in deletions : del.fname \in Registered

====
